---- MODULE Spec2Model ----
(***************************************************************************)
(* Model of the newtonian-bodies integration engine:                       *)
(*   newtonian-bodies/src/dynamics.rs  simulate, update_acceleration,      *)
(*                                     update_velocity, update_position,   *)
(*                                     SequentialWriter                    *)
(*   newtonian-bodies/src/Body.rs      Body, Vector                        *)
(*   newtonian-bodies/src/main.rs      Args, main, parse_expression_to_u32 *)
(*   newtonian-bodies/src/writer.rs    Writer                              *)
(*   newtonian-bodies/src/dynamics.rs  (tests) MockWriter                  *)
(*                                                                         *)
(* f64 values are modelled on a grid of resolution 1/Scale extended with    *)
(* NaN and the two infinities: Fin(n) is the value n/Scale.  Every         *)
(* arithmetic operation returns the exact result rounded to the grid       *)
(* (toward zero; a double rounds to its 53-bit grid),                      *)
(* and follows the IEEE-754 rules for NaN, infinities and division by      *)
(* zero.  Negative zero is not modelled: a zero divisor counts as +0,      *)
(* which is what r * r, r * mass and sqrt produce in the code.             *)
(***************************************************************************)
EXTENDS Integers, Sequences, FiniteSets, TLC

VARIABLES
    argv,             \* the command line: the gravity option and the raw record interval
    writer,           \* the `impl SequentialWriter` of the run
    bodies,           \* simulate's `bodies: &mut Vec<Body>`
    gravity,          \* simulate's `gravity: f64`
    total_time,       \* simulate's `total_time: f64`, as its multiple of 1/Scale
    dt,               \* simulate's `dt: f64`, as its multiple of 1/Scale
    record_interval,  \* simulate's `record_interval: u64`
    steps,            \* local `steps: usize`
    record_steps,     \* local `record_steps: usize`
    step,             \* the loop variable of `for step in 0..steps`
    pc,               \* position of main and simulate
    calls,            \* the calls of writer.add so far, in call order
    init,             \* history: the body collection simulate was called with
    pre               \* history: the body collection when the current iteration began

vars == <<argv, writer, bodies, gravity, total_time, dt, record_interval, steps, record_steps,
          step, pc, calls, init, pre>>

----------------------------------------------------------------------------
(* Bounds of the model *)

\* largest total_time drawn (seconds)
MaxTotalTime == 3
\* largest record_interval drawn (seconds)
MaxRecordInterval == 3
\* largest dt drawn (seconds)
MaxDt == 2
\* most steps of a run drawn; a run whose step count saturated to usize::MAX
\* is followed for as many iterations
StepCap == 5

----------------------------------------------------------------------------
(* f64 *)

\* grid points per unit: the finite values are the multiples of 1/Scale
Scale == 4

\* the value n/Scale
Fin(n) == [k |-> "fin", v |-> n]

\* the whole number n
Real(n) == Fin(n * Scale)

NaN == [k |-> "nan", v |-> 0]

Inf(s) == [k |-> "inf", v |-> s]

IsFinite(a) == a.k = "fin"

Abs(n) == IF n < 0 THEN -n ELSE n

Sign(n) == IF n > 0 THEN 1 ELSE IF n < 0 THEN -1 ELSE 0

SignOf(a) == IF a.k = "fin" THEN Sign(a.v) ELSE a.v

\* integer quotient rounded toward zero
Quot(a, b) == Sign(a) * Sign(b) * (Abs(a) \div Abs(b))

\* integer square root, rounded toward zero
ISqrt(n) == CHOOSE r \in 0..n : r * r <= n /\ (r + 1) * (r + 1) > n

FAdd(a, b) ==
    CASE a.k = "nan" \/ b.k = "nan" -> NaN
      [] a.k = "inf" /\ b.k = "inf" -> IF a.v = b.v THEN a ELSE NaN
      [] a.k = "inf" -> a
      [] b.k = "inf" -> b
      [] OTHER -> Fin(a.v + b.v)

FNeg(a) == IF a.k = "nan" THEN NaN ELSE [a EXCEPT !.v = -a.v]

FSub(a, b) == FAdd(a, FNeg(b))

FMul(a, b) ==
    CASE a.k = "nan" \/ b.k = "nan" -> NaN
      [] a.k = "inf" \/ b.k = "inf" ->
            IF SignOf(a) * SignOf(b) = 0 THEN NaN ELSE Inf(SignOf(a) * SignOf(b))
      [] OTHER -> Fin(Quot(a.v * b.v, Scale))

FDiv(a, b) ==
    CASE a.k = "nan" \/ b.k = "nan" -> NaN
      [] a.k = "inf" /\ b.k = "inf" -> NaN
      [] a.k = "inf" -> Inf(IF SignOf(b) < 0 THEN -a.v ELSE a.v)
      [] b.k = "inf" -> Fin(0)
      [] b.v = 0 -> IF a.v = 0 THEN NaN ELSE Inf(Sign(a.v))
      [] OTHER -> Fin(Quot(a.v * Scale, b.v))

FSqrt(a) ==
    CASE a.k = "nan" -> NaN
      [] a.k = "inf" -> IF a.v = 1 THEN a ELSE NaN
      [] a.v < 0 -> NaN
      [] OTHER -> Fin(ISqrt(a.v * Scale))

\* (a / b).ceil() for the finite values a/Scale and b/Scale: the ceiling of
\* their quotient.  The quotient itself need not be on the grid, so the two
\* operations are taken together.
CeilDiv(a, b) ==
    IF b = 0
    THEN (IF a = 0 THEN NaN ELSE Inf(Sign(a)))
    ELSE Real(-((-(a * Sign(b))) \div Abs(b)))

\* usize::MAX, 2^64 - 1 on a 64-bit target, stood for by the largest integer the
\* checker holds; all that is used of it is that no step index reaches it.
UsizeMax == 2147483647

\* `x as usize` of an f64: NaN is 0, and the value saturates at 0 and usize::MAX
AsUsize(x) ==
    CASE x.k = "nan" -> 0
      [] x.k = "inf" -> IF x.v = 1 THEN UsizeMax ELSE 0
      [] x.v < 0 -> 0
      [] OTHER -> Quot(x.v, Scale)

----------------------------------------------------------------------------
(* Body.rs *)

Vector(x, y, z) == [x |-> x, y |-> y, z |-> z]

VectorDefault == Vector(Fin(0), Fin(0), Fin(0))

Body(name, mass, position, velocity, acceleration) ==
    [name |-> name, mass |-> mass, position |-> position,
     velocity |-> velocity, acceleration |-> acceleration]

----------------------------------------------------------------------------
(* dynamics.rs: the integrator *)

VAdd(a, b) == Vector(FAdd(a.x, b.x), FAdd(a.y, b.y), FAdd(a.z, b.z))

\* mutant: no body is skipped, a body attracts itself
SameBodyNever(body, other) == FALSE

\* `if body.name == other.name { continue; }`
SameBody(body, other) == body.name = other.name

\* mutant: a body at no distance adds nothing
ContributionClamped(body, other, g) ==
    LET dx == FSub(other.position.x, body.position.x)
        dy == FSub(other.position.y, body.position.y)
        dz == FSub(other.position.z, body.position.z)
        r  == FSqrt(FAdd(FAdd(FMul(dx, dx), FMul(dy, dy)), FMul(dz, dz)))
        f  == FDiv(FMul(FMul(g, body.mass), other.mass), FMul(r, r))
    IN  IF r = Fin(0)
        THEN Vector(Fin(0), Fin(0), Fin(0))
        ELSE Vector(FDiv(FMul(f, dx), FMul(r, body.mass)),
                    FDiv(FMul(f, dy), FMul(r, body.mass)),
                    FDiv(FMul(f, dz), FMul(r, body.mass)))

\* what one `other` adds to (ax, ay, az) for `body`
Contribution(body, other, g) ==
    LET dx == FSub(other.position.x, body.position.x)
        dy == FSub(other.position.y, body.position.y)
        dz == FSub(other.position.z, body.position.z)
        r  == FSqrt(FAdd(FAdd(FMul(dx, dx), FMul(dy, dy)), FMul(dz, dz)))
        f  == FDiv(FMul(FMul(g, body.mass), other.mass), FMul(r, r))
    IN  Vector(FDiv(FMul(f, dx), FMul(r, body.mass)),
               FDiv(FMul(f, dy), FMul(r, body.mass)),
               FDiv(FMul(f, dz), FMul(r, body.mass)))

\* mutant: the sum starts from the acceleration of the step before
RunningSum(body) == body.acceleration

\* `let mut ax = 0.0; let mut ay = 0.0; let mut az = 0.0;`
ZeroSum(body) == Vector(Fin(0), Fin(0), Fin(0))

\* the inner loop `for other in bodies_clone.iter()`, from index j on
RECURSIVE Accumulate(_, _, _, _, _)
Accumulate(body, bodies_clone, g, j, a) ==
    IF j > Len(bodies_clone)
    THEN a
    ELSE Accumulate(body, bodies_clone, g, j + 1,
                    IF SameBody(body, bodies_clone[j])
                    THEN a
                    ELSE VAdd(a, Contribution(body, bodies_clone[j], g)))

\* the outer loop `for body in bodies.iter_mut()`, from index i on: bs is the
\* collection being written in place, bodies_clone the copy taken before the loop
RECURSIVE AccelerationLoop(_, _, _, _)
AccelerationLoop(bs, bodies_clone, g, i) ==
    IF i > Len(bs)
    THEN bs
    ELSE AccelerationLoop(
            [bs EXCEPT ![i].acceleration =
                Accumulate(bs[i], bodies_clone, g, 1, ZeroSum(bs[i]))],
            bodies_clone, g, i + 1)

\* mutant: a body at the place of the first body is merged into it
update_acceleration_merging(bs, g) ==
    LET Kept(b) == b = bs[1] \/ b.position # bs[1].position
        kept == SelectSeq(bs, Kept)
    IN  AccelerationLoop(kept, kept, g, 1)

update_acceleration(bs, g) == AccelerationLoop(bs, bs, g, 1)

update_velocity(bs, h) ==
    [i \in 1..Len(bs) |->
        [bs[i] EXCEPT !.velocity =
            Vector(FAdd(bs[i].velocity.x, FMul(bs[i].acceleration.x, h)),
                   FAdd(bs[i].velocity.y, FMul(bs[i].acceleration.y, h)),
                   FAdd(bs[i].velocity.z, FMul(bs[i].acceleration.z, h)))]]

update_position(bs, h) ==
    [i \in 1..Len(bs) |->
        [bs[i] EXCEPT !.position =
            Vector(FAdd(bs[i].position.x, FMul(bs[i].velocity.x, h)),
                   FAdd(bs[i].position.y, FMul(bs[i].velocity.y, h)),
                   FAdd(bs[i].position.z, FMul(bs[i].velocity.z, h)))]]

----------------------------------------------------------------------------
(* dynamics.rs: simulate *)

\* `(total_time as f64 / dt).ceil() as usize`
StepsOf(t, h) == AsUsize(CeilDiv(t, h))

\* `(record_interval as f64 / dt).ceil() as usize`
RecordStepsOf(ri, h) == AsUsize(CeilDiv(Real(ri).v, h))

\* mutant: the inclusive range 0..=steps
InRangeInclusive(s, n) == s <= n

\* the range test of `for step in 0..steps`
InRange(s, n) == s < n

\* mutant: the boundary is tested on the step index after the step
IsRecordingBoundaryAfter(s, rs) == (s + 1) % rs = 0

\* `step % record_steps == 0`; the remainder panics when record_steps is 0
IsRecordingBoundary(s, rs) == s % rs = 0

\* mutant: steps counted from one
TimestampOneBased(s) == s + 1

\* the time handed to the writer: `step as u64`
Timestamp(s) == s

\* what the writer is handed: `bodies`, borrowed for the call
Snapshot(bs) == bs

\* mutant: the result of add is dropped
AfterAddIgnoringError(ok) == "acc"

\* mutant: an iteration that records does not integrate
AfterAddSkippingStep(ok) == IF ok THEN "tick" ELSE "Failed"

\* `writer.add(..)?`: an Err returns from simulate, an Ok goes on to the integrator
AfterAdd(ok) == IF ok THEN "acc" ELSE "Failed"

\* mutant: the position pass runs before the velocity pass
PassAfterPositionFirst(p) ==
    CASE p = "acc" -> "pos"
      [] p = "pos" -> "vel"
      [] p = "vel" -> "tick"

\* the order of the three calls of an iteration, then the end of the loop body
PassAfter(p) ==
    CASE p = "acc" -> "vel"
      [] p = "vel" -> "pos"
      [] p = "pos" -> "tick"

Running == {"for", "acc", "vel", "pos", "tick"}

----------------------------------------------------------------------------
(* dynamics.rs (tests): MockWriter *)

\* `MockWriter::new()`
MockWriter_new ==
    [kind |-> "MockWriter", records |-> <<>>, rows |-> <<>>, file |-> "none"]

\* `bodies.to_vec()`: a copy of the slice
to_vec(bs) == bs

\* `self.records.insert(time, bodies.to_vec())`
MockWriter_add(w, time, bs) ==
    [w EXCEPT !.records =
        [t \in DOMAIN w.records \cup {time} |->
            IF t = time THEN to_vec(bs) ELSE w.records[t]]]

\* `get_records`: the map as a reader of the writer finds it
\* mutant: the stored vectors alias the collection simulate keeps updating
get_records_aliased(w) == [t \in DOMAIN w.records |-> bodies]

get_records(w) == w.records

----------------------------------------------------------------------------
(* writer.rs: Writer *)

\* `Writer::new(file)`
Writer_new ==
    [kind |-> "Writer", records |-> <<>>, rows |-> <<>>, file |-> "open"]

\* one row of the six columns of the schema
Row(time, b) ==
    [time |-> time, name |-> b.name, mass |-> b.mass,
     pos_x |-> b.position.x, pos_y |-> b.position.y, pos_z |-> b.position.z]

\* the record batch of one call: one row per body, in the order of the slice
\* mutant: the columns are filled from the last body to the first
RecordBatchReversed(time, bs) ==
    [i \in 1..Len(bs) |-> Row(time, bs[Len(bs) + 1 - i])]

RecordBatch(time, bs) == [i \in 1..Len(bs) |-> Row(time, bs[i])]

\* `Writer::add`: the batch is written after the batches before it
Writer_add(w, time, bs) == [w EXCEPT !.rows = w.rows \o RecordBatch(time, bs)]

\* the add of the writer the run was given
add(w, time, bs) ==
    IF w.kind = "MockWriter" THEN MockWriter_add(w, time, bs) ELSE Writer_add(w, time, bs)

\* the results add can have: MockWriter::add always returns Ok(()), Writer::add
\* returns the error of try_new or write
AddResults(w) == IF w.kind = "MockWriter" THEN {TRUE} ELSE BOOLEAN

----------------------------------------------------------------------------
(* main.rs *)

\* `val.round() as u64`: the nearest whole number, halves away from zero, and 0
\* for what is below zero
parse_expression_to_u32(x) ==
    IF x < 0 THEN 0 ELSE (2 * x + Scale) \div (2 * Scale)

\* the options `struct Args` declares
ArgsOptions == {"output", "total_time", "delta_t", "record_interval"}

\* the options of a command line
OptionsGiven(a) ==
    {"output", "total_time", "delta_t", "record_interval"}
        \cup (IF a.gravity = {} THEN {} ELSE {"gravity"})

----------------------------------------------------------------------------
(* Inputs *)

Gravities == {Real(8)}

Origin == Vector(Fin(0), Fin(0), Fin(0))

Beside == Vector(Real(2), Fin(0), Fin(0))

Apart == Vector(Fin(0), Real(2), Real(1))

Velocities == {Origin, Vector(Real(1), Fin(0), Fin(0))}

\* acceleration is optional in the input and defaults to Vector::default()
Accelerations == {VectorDefault, Vector(Fin(0), Real(3), Fin(0))}

FirstBodies ==
    {Body("a", Real(1), Origin, v, a) : v \in Velocities, a \in Accelerations}

\* a body of another name away from the first body, one at the first body's
\* place, and a body of the first body's name away from it
OtherBodies ==
    {Body("b", Real(2), Apart, Origin, VectorDefault),
     Body("b", Real(2), Origin, Origin, VectorDefault),
     Body("a", Real(2), Beside, Origin, VectorDefault)}

RECURSIVE Collections(_)
Collections(n) ==
    IF n = 1
    THEN {<<b>> : b \in FirstBodies}
    ELSE {Append(c, b) : c \in Collections(n - 1), b \in OtherBodies}

\* most bodies in a collection
MaxBodies == 2

InitialConditions == UNION {Collections(n) : n \in 1..MaxBodies}

\* total_time: whole seconds from -1 on
TotalTimes == {Real(t).v : t \in -1..MaxTotalTime}

\* dt: whole seconds from -1 on, and the smallest positive value of the grid
DeltaTs == {Real(d).v : d \in -1..MaxDt} \cup {Fin(1).v}

\* the record interval of the command line: whole seconds, a quarter and a half
RecordIntervalArgs ==
    {Real(r).v : r \in 0..MaxRecordInterval} \cup {Fin(1).v, Fin(2).v}

Init ==
    /\ argv \in [gravity : {{}} \cup {{g} : g \in Gravities},
                 record_interval : RecordIntervalArgs]
    /\ writer \in {MockWriter_new, Writer_new}
    /\ bodies \in InitialConditions
    /\ gravity \in Gravities
    /\ total_time \in TotalTimes
    /\ dt \in DeltaTs
    /\ StepsOf(total_time, dt) <= StepCap \/ StepsOf(total_time, dt) = UsizeMax
    /\ record_interval = 0
    /\ steps = 0
    /\ record_steps = 0
    /\ step = 0
    /\ pc = "main"
    /\ calls = <<>>
    /\ init = bodies
    /\ pre = bodies

params == <<argv, gravity, total_time, dt, record_interval, init>>

\* main.rs line 39, `Args::parse()`: an option Args does not declare ends the
\* process with a usage error; otherwise the record interval is parsed
ParseArgs ==
    /\ pc = "main"
    /\ IF OptionsGiven(argv) \subseteq ArgsOptions
       THEN /\ record_interval' = parse_expression_to_u32(argv.record_interval)
            /\ pc' = "NotStarted"
       ELSE /\ record_interval' = record_interval
            /\ pc' = "UsageError"
    /\ UNCHANGED <<argv, writer, bodies, gravity, total_time, dt, steps, record_steps,
                   step, calls, init, pre>>

\* lines 13-14: the two step counts
Start ==
    /\ pc = "NotStarted"
    /\ steps' = StepsOf(total_time, dt)
    /\ record_steps' = RecordStepsOf(record_interval, dt)
    /\ step' = 0
    /\ pc' = "for"
    /\ UNCHANGED <<bodies, calls, pre, params, writer>>

\* mutant: the state after the last step is recorded before simulate returns
FinishRecording ==
    /\ pc = "for"
    /\ ~InRange(step, steps)
    /\ calls' = Append(calls, [time |-> Timestamp(step),
                               bodies |-> Snapshot(bodies), ok |-> TRUE])
    /\ writer' = add(writer, Timestamp(step), Snapshot(bodies))
    /\ pc' = "Completed"
    /\ UNCHANGED <<bodies, steps, record_steps, step, pre, params>>

\* mutant: the exhausted range is not noticed, simulate stays at the loop head
FinishSpins ==
    /\ pc = "for"
    /\ ~InRange(step, steps)
    /\ pc' = "for"
    /\ UNCHANGED <<bodies, steps, record_steps, step, calls, pre, params, writer>>

\* line 25: the range is exhausted; line 44: Ok(())
Finish ==
    /\ pc = "for"
    /\ ~InRange(step, steps)
    /\ pc' = "Completed"
    /\ UNCHANGED <<bodies, steps, record_steps, step, calls, pre, params, writer>>

\* line 27: the remainder by a zero record_steps panics
RemainderByZero ==
    /\ pc = "for"
    /\ InRange(step, steps)
    /\ step < StepCap
    /\ record_steps = 0
    /\ pc' = "Panicked"
    /\ UNCHANGED <<bodies, steps, record_steps, step, calls, pre, params, writer>>

\* lines 27-31: a recording boundary; the writer's add succeeds or fails
Record ==
    /\ pc = "for"
    /\ InRange(step, steps)
    /\ step < StepCap
    /\ record_steps # 0
    /\ IsRecordingBoundary(step, record_steps)
    /\ \E ok \in AddResults(writer) :
          /\ calls' = Append(calls, [time |-> Timestamp(step),
                                     bodies |-> Snapshot(bodies), ok |-> ok])
          /\ writer' = IF ok
                        THEN add(writer, Timestamp(step), Snapshot(bodies))
                        ELSE writer
          /\ pc' = AfterAdd(ok)
    /\ pre' = bodies
    /\ UNCHANGED <<bodies, steps, record_steps, step, params>>

\* line 27: not a recording boundary
NoRecord ==
    /\ pc = "for"
    /\ InRange(step, steps)
    /\ step < StepCap
    /\ record_steps # 0
    /\ ~IsRecordingBoundary(step, record_steps)
    /\ pc' = "acc"
    /\ pre' = bodies
    /\ UNCHANGED <<bodies, steps, record_steps, step, calls, params, writer>>

\* line 33
UpdateAcceleration ==
    /\ pc = "acc"
    /\ bodies' = update_acceleration(bodies, gravity)
    /\ pc' = PassAfter("acc")
    /\ UNCHANGED <<steps, record_steps, step, calls, pre, params, writer>>

\* line 34
UpdateVelocity ==
    /\ pc = "vel"
    /\ bodies' = update_velocity(bodies, Fin(dt))
    /\ pc' = PassAfter("vel")
    /\ UNCHANGED <<steps, record_steps, step, calls, pre, params, writer>>

\* line 35
UpdatePosition ==
    /\ pc = "pos"
    /\ bodies' = update_position(bodies, Fin(dt))
    /\ pc' = PassAfter("pos")
    /\ UNCHANGED <<steps, record_steps, step, calls, pre, params, writer>>

\* lines 38-39: the end of the loop body, on to the next step
NextStep ==
    /\ pc = "tick"
    /\ step' = step + 1
    /\ pc' = "for"
    /\ UNCHANGED <<bodies, steps, record_steps, calls, pre, params, writer>>

\* main.rs line 54, `writer.close()?`, after simulate returned Ok(())
Close ==
    /\ pc = "Completed"
    /\ writer.file = "open"
    /\ \E ok \in BOOLEAN :
          writer' = [writer EXCEPT !.file = IF ok THEN "closed" ELSE "close failed"]
    /\ UNCHANGED <<bodies, steps, record_steps, step, pc, calls, pre, params>>

Next ==
    \/ ParseArgs
    \/ Start
    \/ Finish
    \/ RemainderByZero
    \/ Record
    \/ NoRecord
    \/ UpdateAcceleration
    \/ UpdateVelocity
    \/ UpdatePosition
    \/ NextStep
    \/ Close

Spec == Init /\ [][Next]_vars

\* every step but the acceleration pass
OtherSteps ==
    \/ ParseArgs
    \/ Start
    \/ Finish
    \/ RemainderByZero
    \/ Record
    \/ NoRecord
    \/ UpdateVelocity
    \/ UpdatePosition
    \/ NextStep
    \/ Close

\* main and simulate are one synchronous pass: a step that can be taken is
\* taken.  The last conjunct is WF_vars(UpdateAcceleration) with the enabling
\* condition of that pass, pc = "acc", written out.
FairSpec ==
    /\ Spec
    /\ WF_vars(OtherSteps)
    /\ (<>[](pc = "acc") => []<><<UpdateAcceleration>>_vars)

----------------------------------------------------------------------------
(* Definitions the properties are stated with *)

\* lines 33-35: one integrator step
IntegratorStep(bs, g, h) ==
    update_position(update_velocity(update_acceleration(bs, g), h), h)

\* n integrator steps applied to bs
RECURSIVE StepN(_, _, _, _)
StepN(bs, g, h, n) ==
    IF n = 0 THEN bs ELSE StepN(IntegratorStep(bs, g, h), g, h, n - 1)

\* ceiling of n / d for naturals, d > 0
CeilNat(n, d) == (n + d - 1) \div d

AllOk == \A i \in 1..Len(calls) : calls[i].ok

\* integrator steps completed so far, where simulate is between two steps
BetweenSteps == pc \in {"for", "tick", "Completed", "Failed", "Panicked"}

StepsDone == IF pc = "tick" THEN step + 1 ELSE step

\* bs with the accelerations replaced by those of acc
WithAccelerations(bs, acc) ==
    [i \in 1..Len(bs) |-> [bs[i] EXCEPT !.acceleration = acc[i]]]

\* the sum of the contributions of every body of bs but the one at index i
RECURSIVE SumOfOthers(_, _, _, _, _)
SumOfOthers(bs, i, g, j, a) ==
    IF j > Len(bs)
    THEN a
    ELSE SumOfOthers(bs, i, g, j + 1,
                     IF j = i THEN a ELSE VAdd(a, Contribution(bs[i], bs[j], g)))

\* the sum of the masses of bs from index i on
RECURSIVE TotalMass(_, _)
TotalMass(bs, i) ==
    IF i > Len(bs) THEN Fin(0) ELSE FAdd(bs[i].mass, TotalMass(bs, i + 1))

\* no component of v is a finite number
NonFinite(v) == ~IsFinite(v.x) /\ ~IsFinite(v.y) /\ ~IsFinite(v.z)

\* bodies i and j of bs have different names and the same, finite, position
Coincident(bs, i, j) ==
    /\ i # j
    /\ bs[i].name # bs[j].name
    /\ bs[i].position = bs[j].position
    /\ IsFinite(bs[i].position.x)
    /\ IsFinite(bs[i].position.y)
    /\ IsFinite(bs[i].position.z)

InvalidConfiguration ==
    dt <= 0 \/ record_interval <= 0 \/ Real(record_interval).v < dt

----------------------------------------------------------------------------
(* Properties *)

\* C1: with dt > 0 and record_steps >= 1 the k-th call of add carries the
\* timestamp (k-1) * record_steps, a step index below steps; between two
\* iterations every boundary below the step index has had its call, and a
\* run that completes has made ceil(steps / record_steps) calls.
C1_Timestamps ==
    (pc # "NotStarted" /\ dt > 0 /\ record_steps >= 1) =>
        /\ \A k \in 1..Len(calls) :
              /\ calls[k].time = (k - 1) * record_steps
              /\ calls[k].time < steps
        /\ (pc = "for" /\ AllOk) => Len(calls) = CeilNat(step, record_steps)
        /\ pc = "Completed" => Len(calls) = CeilNat(steps, record_steps)
        /\ (pc = "Completed" /\ steps >= 1 /\ record_steps >= steps) =>
              (Len(calls) = 1 /\ calls[1].time = 0)

C1_Witness ==
    /\ pc = "Completed"
    /\ Fin(dt) = Real(2)
    /\ Len(calls) = 2
    /\ calls[2].time = 1

C1_WitnessSparse ==
    /\ pc = "Completed"
    /\ record_steps = 2
    /\ Len(calls) = 2

\* C2: the snapshot of every call of add is the initial collection advanced by
\* exactly as many integrator steps as its timestamp says; the one with
\* timestamp 0 is the initial collection.
C2_SnapshotAsOfStep ==
    \A k \in 1..Len(calls) :
        /\ calls[k].bodies = StepN(init, gravity, Fin(dt), calls[k].time)
        /\ calls[k].time = 0 => calls[k].bodies = init

C2_Witness ==
    /\ Len(calls) >= 2
    /\ Len(init) = 2
    /\ calls[2].time >= 1
    /\ calls[2].bodies # init
    /\ calls[1].bodies = init

\* C3: a failed add is the last call made, and the run is then Failed with the
\* step index and the bodies as they were at that call: the bodies after
\* exactly that many integrator steps.
C3_FailureStopsRun ==
    /\ \A k \in 1..Len(calls) : ~calls[k].ok => (k = Len(calls) /\ pc = "Failed")
    /\ pc = "Failed" =>
          /\ Len(calls) >= 1
          /\ ~calls[Len(calls)].ok
          /\ calls[Len(calls)].time = step
          /\ bodies = calls[Len(calls)].bodies
          /\ bodies = StepN(init, gravity, Fin(dt), step)

C3_Witness ==
    /\ pc = "Failed"
    /\ step >= 1
    /\ Len(calls) >= 2
    /\ bodies # init

\* C4: with total_time <= 0, dt > 0 and record_interval >= 1 the run has zero
\* steps, never enters the loop body, calls add zero times, leaves the bodies
\* as given and ends Completed.
C4_ZeroDuration ==
    (pc # "NotStarted" /\ total_time <= 0 /\ dt > 0 /\ record_interval >= 1) =>
        /\ steps = 0
        /\ pc \in {"for", "Completed"}
        /\ ~InRange(step, steps)
        /\ calls = <<>>
        /\ bodies = init

C4_Witness ==
    /\ pc = "Completed"
    /\ total_time < 0
    /\ dt > 0
    /\ record_interval >= 1
    /\ Len(bodies) = 2

\* C5: a run with dt <= 0, record_interval <= 0 or record_interval < dt is
\* rejected before it starts: it gets no further than the head of the loop at
\* step 0 unless it has ended with an error, and makes no call of add and no
\* integrator step.
C5_InvalidConfigurationRejected ==
    InvalidConfiguration =>
        /\ pc \in {"main", "UsageError", "NotStarted", "for", "Failed"}
        /\ step = 0
        /\ calls = <<>>
        /\ bodies = init

\* C6: with dt > 0 and record_steps >= 1, every iteration, recording boundary
\* or not, ends with exactly one integrator step applied to the bodies it
\* began with, so between iterations the bodies are the initial ones advanced
\* by step integrator steps, and by steps of them when the run completes.
C6_OneStepPerIteration ==
    (dt > 0 /\ record_steps >= 1) =>
        /\ pc = "tick" => bodies = IntegratorStep(pre, gravity, Fin(dt))
        /\ pc \in {"for", "Completed"} =>
              bodies = StepN(init, gravity, Fin(dt), step)
        /\ pc = "Completed" => step = steps

C6_Witness ==
    /\ pc = "Completed"
    /\ steps >= 2
    /\ Len(calls) >= 2
    /\ Len(bodies) = 2
    /\ bodies # init

\* C7: after the acceleration pass every body has its new acceleration and its
\* old velocity and position; after the velocity pass every velocity is the old
\* velocity plus the new acceleration times dt and every position is still old;
\* after the position pass every position is the old position plus the new
\* velocity times dt.
C7_PassOrder ==
    LET h == Fin(dt)
        acc == update_acceleration(pre, gravity)
        NewVelocity(i) ==
            Vector(FAdd(pre[i].velocity.x, FMul(bodies[i].acceleration.x, h)),
                   FAdd(pre[i].velocity.y, FMul(bodies[i].acceleration.y, h)),
                   FAdd(pre[i].velocity.z, FMul(bodies[i].acceleration.z, h)))
        NewPosition(i) ==
            Vector(FAdd(pre[i].position.x, FMul(bodies[i].velocity.x, h)),
                   FAdd(pre[i].position.y, FMul(bodies[i].velocity.y, h)),
                   FAdd(pre[i].position.z, FMul(bodies[i].velocity.z, h)))
    IN  /\ pc \in {"vel", "pos", "tick"} =>
              \A i \in 1..Len(bodies) : bodies[i].acceleration = acc[i].acceleration
        /\ pc = "vel" =>
              \A i \in 1..Len(bodies) :
                  /\ bodies[i].velocity = pre[i].velocity
                  /\ bodies[i].position = pre[i].position
        /\ pc \in {"pos", "tick"} =>
              \A i \in 1..Len(bodies) : bodies[i].velocity = NewVelocity(i)
        /\ pc = "pos" =>
              \A i \in 1..Len(bodies) : bodies[i].position = pre[i].position
        /\ pc = "tick" =>
              \A i \in 1..Len(bodies) : bodies[i].position = NewPosition(i)

C7_Witness ==
    /\ pc = "tick"
    /\ dt > 0
    /\ \E i \in 1..Len(bodies) :
          /\ pre[i].acceleration # VectorDefault
          /\ bodies[i].acceleration # VectorDefault
          /\ bodies[i].acceleration # pre[i].acceleration
          /\ pre[i].velocity # Origin
          /\ bodies[i].velocity # pre[i].velocity
          /\ bodies[i].position # pre[i].position

\* C8: the acceleration a pass writes for a body is the sum, started from
\* zero, of the contributions computed from the pre-step collection; and the
\* accelerations, velocities and positions after a step are those the same
\* step gives when the pre-step accelerations are replaced by any others.
C8_IndependentOfAcceleration ==
    /\ pc \in {"vel", "pos", "tick"} =>
          \A i \in 1..Len(bodies) :
              bodies[i].acceleration =
                  Accumulate(pre[i], pre, gravity, 1, VectorDefault)
    /\ pc = "tick" =>
          \A acc \in [1..Len(pre) -> Accelerations] :
              bodies = IntegratorStep(WithAccelerations(pre, acc), gravity, Fin(dt))

C8_Witness ==
    /\ pc = "tick"
    /\ step = 0
    /\ dt > 0
    /\ Len(bodies) = 2
    /\ pre[1].acceleration # VectorDefault
    /\ bodies[1].acceleration # VectorDefault
    /\ bodies[1].acceleration # pre[1].acceleration

\* C9: after the acceleration pass every body's acceleration is the sum of the
\* contributions of all the other bodies of the collection, whatever their
\* names.
C9_ExcludedByIdentity ==
    pc = "vel" =>
        \A i \in 1..Len(bodies) :
            bodies[i].acceleration = SumOfOthers(pre, i, gravity, 1, VectorDefault)

\* C10: for a single body, once one or more steps are done the acceleration is
\* the zero vector, the velocity is the initial one and the position is the
\* initial one plus (steps done) * velocity * dt.
C10_SingleBody ==
    (Len(init) = 1 /\ BetweenSteps /\ StepsDone >= 1) =>
        LET b == bodies[1]
            b0 == init[1]
            Linear(p, v) == Fin(p.v + StepsDone * FMul(v, Fin(dt)).v)
        IN  /\ Len(bodies) = 1
            /\ b.acceleration = Vector(Fin(0), Fin(0), Fin(0))
            /\ b.velocity = b0.velocity
            /\ b.position = Vector(Linear(b0.position.x, b0.velocity.x),
                                   Linear(b0.position.y, b0.velocity.y),
                                   Linear(b0.position.z, b0.velocity.z))

C10_Witness ==
    /\ Len(init) = 1
    /\ pc = "for"
    /\ step >= 2
    /\ dt > 0
    /\ init[1].velocity # Origin
    /\ init[1].acceleration # VectorDefault
    /\ bodies[1].position # init[1].position

\* C11: in every state of every run the collection has the bodies it began
\* with, in the same order, each with its name and its mass, so the masses sum
\* to what they summed to at the start.
C11_NamesAndMassesKept ==
    /\ Len(bodies) = Len(init)
    /\ \A i \in 1..Len(init) :
          /\ bodies[i].name = init[i].name
          /\ bodies[i].mass = init[i].mass
    /\ TotalMass(bodies, 1) = TotalMass(init, 1)

C11_Witness ==
    /\ pc = "Failed"
    /\ step >= 2
    /\ Len(bodies) = 2
    /\ \A i \in 1..2 :
          /\ bodies[i].acceleration # init[i].acceleration
          /\ bodies[i].velocity # init[i].velocity
          /\ bodies[i].position # init[i].position

\* C12: what a recorder holds for timestamp t is, whatever simulate has done
\* to its collection since, the collection after exactly t integrator steps:
\* the vector MockWriter stored under t, and the name, mass and position of
\* every row Writer appended with time t.
C12_PointInTimeCopy ==
    /\ writer.kind = "MockWriter" =>
          \A t \in DOMAIN get_records(writer) :
              get_records(writer)[t] = StepN(init, gravity, Fin(dt), t)
    /\ writer.kind = "Writer" =>
          \A t \in {writer.rows[r].time : r \in 1..Len(writer.rows)} :
              \A at \in {StepN(init, gravity, Fin(dt), t)} :
                  \A r \in 1..Len(writer.rows) :
                      writer.rows[r].time = t =>
                          writer.rows[r] = Row(t, at[((r - 1) % Len(init)) + 1])

C12_Witness ==
    /\ pc = "Completed"
    /\ writer.kind = "MockWriter"
    /\ Len(init) = 2
    /\ DOMAIN get_records(writer) = {0, 2}
    /\ get_records(writer)[0] = init
    /\ \A i \in 1..2 : get_records(writer)[2][i].position # bodies[i].position
    /\ \A i \in 1..2 : get_records(writer)[2][i].position # init[i].position

\* C13: once simulate has completed with N successful calls of add on a Writer
\* and the file is closed, the file holds N * M rows for M bodies: the rows of
\* the k-th call are rows (k-1)*M+1 .. k*M, row (k-1)*M+i carries the time of
\* that call and the name, mass and position of the i-th body of its slice, and
\* the time column never decreases.
C13_RowsOfTheFile ==
    (writer.kind = "Writer" /\ writer.file = "closed") =>
        LET M == Len(init)
            N == Len(calls)
        IN  /\ AllOk
            /\ Len(writer.rows) = N * M
            /\ \A k \in 1..N : \A i \in 1..M :
                  writer.rows[(k - 1) * M + i] = Row(calls[k].time, calls[k].bodies[i])
            /\ \A r \in 1..(Len(writer.rows) - 1) :
                  writer.rows[r].time <= writer.rows[r + 1].time

C13_Witness ==
    /\ writer.kind = "Writer"
    /\ writer.file = "closed"
    /\ Len(init) = 2
    /\ Len(calls) = 3
    /\ Len(writer.rows) = 6
    /\ writer.rows[1].name # writer.rows[2].name
    /\ writer.rows[3].pos_x # writer.rows[1].pos_x
    /\ writer.rows[5].time > writer.rows[3].time

\* C14: a command line that gives the gravity option is accepted, and the run
\* it starts uses the value given as G.  Args declares no such option, so the
\* command line is refused before simulate is called.
C14_GravityOptionAccepted ==
    (argv.gravity # {} /\ pc # "main") =>
        /\ pc # "UsageError"
        /\ gravity \in argv.gravity

\* C15: when two bodies with different names are at the same position as a
\* step begins, the acceleration pass of that step leaves both with a
\* non-finite acceleration, the velocity pass with a non-finite velocity and
\* the position pass with a non-finite position; when they begin the run so,
\* all three stay non-finite after every later step and in every snapshot
\* recorded with a timestamp of 1 or more.
C15_NonFinitePropagates ==
    \A i \in 1..Len(bodies) : \A j \in 1..Len(bodies) :
        /\ Coincident(pre, i, j) =>
              /\ pc \in {"vel", "pos", "tick"} => NonFinite(bodies[i].acceleration)
              /\ pc \in {"pos", "tick"} => NonFinite(bodies[i].velocity)
              /\ pc = "tick" => NonFinite(bodies[i].position)
        /\ Coincident(init, i, j) =>
              /\ (BetweenSteps /\ StepsDone >= 1) =>
                    /\ NonFinite(bodies[i].acceleration)
                    /\ NonFinite(bodies[i].velocity)
                    /\ NonFinite(bodies[i].position)
              /\ \A k \in 1..Len(calls) :
                    calls[k].time >= 1 =>
                        /\ NonFinite(calls[k].bodies[i].acceleration)
                        /\ NonFinite(calls[k].bodies[i].velocity)
                        /\ NonFinite(calls[k].bodies[i].position)

C15_Witness ==
    /\ pc = "Completed"
    /\ Len(init) = 2
    /\ Coincident(init, 1, 2)
    /\ Len(calls) >= 3
    /\ calls[3].time >= 2
    /\ NonFinite(calls[2].bodies[1].position)
    /\ NonFinite(calls[3].bodies[2].position)

\* C16: with dt > 0 and record_steps at least 1, a run that is NotStarted
\* ends Completed or Failed; the step index never passes steps, changes only
\* at the end of an iteration and is then one more; the run turns Failed only
\* from the loop head with a failed add as its last call, and Completed only
\* from the loop head with every step done and no failed add; once Completed or
\* Failed, simulate changes nothing any more.
C16_Terminates ==
    /\ (pc = "NotStarted" /\ dt > 0 /\ RecordStepsOf(record_interval, dt) >= 1)
          ~> (pc \in {"Completed", "Failed"})
    /\ []((dt > 0 /\ pc \notin {"main", "UsageError", "NotStarted"}) => step <= steps)
    /\ [][/\ step' # step => pc = "tick"
          /\ pc = "tick" => (step' = step + 1 /\ pc' = "for")
          /\ (pc' = "Failed" /\ pc # "Failed") =>
                /\ pc = "for"
                /\ calls' # calls
                /\ ~calls'[Len(calls')].ok
          /\ (pc' = "Completed" /\ pc # "Completed") =>
                /\ pc = "for"
                /\ step = steps
                /\ AllOk
          /\ pc \in {"Completed", "Failed"} =>
                UNCHANGED <<pc, bodies, steps, record_steps, step, calls, writer.rows,
                            writer.records>>
         ]_vars

C16_Witness ==
    /\ pc = "Completed"
    /\ dt > 0
    /\ record_steps >= 1
    /\ steps >= 3
    /\ step = steps
    /\ Len(calls) >= 2
    /\ Len(init) = 2

\* C17: no call of add carries the timestamp steps; when a run with at least
\* one step and a record_steps of at least 1 has Completed, its bodies are the
\* initial ones after steps integrator steps, while the last call of add has
\* the timestamp floor((steps - 1) / record_steps) * record_steps, below steps,
\* and the bodies after only that many steps.
C17_FinalStateNotRecorded ==
    /\ \A k \in 1..Len(calls) : calls[k].time < steps
    /\ (pc = "Completed" /\ steps >= 1 /\ record_steps >= 1) =>
          LET last == calls[Len(calls)]
          IN  /\ Len(calls) >= 1
              /\ last.time = ((steps - 1) \div record_steps) * record_steps
              /\ last.time < steps
              /\ last.bodies = StepN(init, gravity, Fin(dt), last.time)
              /\ bodies = StepN(init, gravity, Fin(dt), steps)

C17_Witness ==
    /\ pc = "Completed"
    /\ steps >= 2
    /\ record_steps >= 1
    /\ steps % record_steps = 0
    /\ Len(calls) >= 2
    /\ calls[Len(calls)].time = steps - record_steps
    /\ calls[Len(calls)].bodies # bodies

\* C18: a command line without the gravity option, with dt > 0, total_time > 0
\* and a record interval of at least dt, never brings simulate to the
\* remainder by a zero record_steps, and once simulate has started
\* record_steps is ceil(record interval / dt), at least 1.  The parser rounds
\* the record interval to a whole number first, so an interval below one half
\* becomes 0.
C18_ValidIntervalKept ==
    (argv.gravity = {} /\ dt > 0 /\ total_time > 0 /\ argv.record_interval >= dt) =>
        /\ pc # "Panicked"
        /\ pc \notin {"main", "UsageError", "NotStarted"} =>
              /\ record_steps >= 1
              /\ record_steps = AsUsize(CeilDiv(argv.record_interval, dt))

====
